---- MODULE Spec2Model ----
(***************************************************************************)
(* Model of the Codex runtime ledger: SQLStore (memory/sql_store),         *)
(* CustodianLedger (custody), HeartbeatEmitter (telemetry), AgentHub       *)
(* (agent_hub), the three relay stubs and the MCP relay endpoints.         *)
(*                                                                         *)
(* Threads call the operations.  A call is cut into steps at the points    *)
(* where another thread can see or change what it does: before the lock is *)
(* taken, inside the with block, at each yield of the fetch_events         *)
(* generator, and between the release of the lock and the return.          *)
(***************************************************************************)
EXTENDS Integers, Sequences, FiniteSets, TLC

(***************************************************************************)
(* Bounds of the model.                                                    *)
(***************************************************************************)
\* largest number of INSERTs issued in one behaviour
MaxRows == 2
\* largest positive LIMIT a caller passes to fetch_events
MaxLimit == 2

Threads == {"t1", "t2"}

(***************************************************************************)
(* Python values.  A value is a tagged tuple; a dict keeps its items in    *)
(* insertion order, as Python does, as a sequence of <<key, value>>.       *)
(***************************************************************************)
PNone == <<"none">>
PStr(s) == <<"str", s>>
PInt(n) == <<"int", n>>
PDict(items) == <<"dict", items>>

IsDict(v) == v[1] = "dict"
IsStr(v) == v[1] = "str"
Items(d) == d[2]

\* Python truthiness of None, str, int and dict values
Truthy(v) ==
    CASE v[1] = "none" -> FALSE
      [] v[1] = "str" -> v[2] # ""
      [] v[1] = "int" -> v[2] # 0
      [] OTHER -> Len(v[2]) > 0

\* x or {}
OrEmptyDict(v) == IF Truthy(v) THEN v ELSE PDict(<<>>)

HasKey(items, k) == \E i \in 1..Len(items) : items[i][1] = k

\* d[k] = v on an insertion-ordered dict: an existing key keeps its place
DictSet(items, k, v) ==
    IF HasKey(items, k)
    THEN [i \in 1..Len(items) |-> IF items[i][1] = k THEN <<k, v>> ELSE items[i]]
    ELSE Append(items, <<k, v>>)

RECURSIVE DictUpdate(_, _)
\* {**base, **extra}
DictUpdate(base, extra) ==
    IF extra = <<>> THEN base
    ELSE DictUpdate(DictSet(base, Head(extra)[1], Head(extra)[2]), Tail(extra))

DictGet(items, k) == LET i == CHOOSE j \in 1..Len(items) : items[j][1] = k IN items[i][2]

(***************************************************************************)
(* json.dumps / json.loads.  JSON text is a sequence of tokens:            *)
(* punctuation <<"p", c>>, string literals <<"s", s>>, numbers <<"n", n>>. *)
(***************************************************************************)
LBrace == <<"p", "{">>
RBrace == <<"p", "}">>
Colon == <<"p", ":">>
Comma == <<"p", ",">>
Null == <<"p", "null">>

RECURSIVE Dumps(_)
RECURSIVE DumpItems(_)
DumpItems(items) ==
    IF items = <<>> THEN <<>>
    ELSE << <<"s", Head(items)[1]>>, Colon >> \o Dumps(Head(items)[2])
         \o (IF Tail(items) = <<>> THEN <<>> ELSE <<Comma>> \o DumpItems(Tail(items)))

Dumps(v) ==
    CASE v[1] = "none" -> <<Null>>
      [] v[1] = "str" -> << <<"s", v[2]>> >>
      [] v[1] = "int" -> << <<"n", v[2]>> >>
      [] OTHER -> <<LBrace>> \o DumpItems(v[2]) \o <<RBrace>>

\* The parser returns [val |-> value, rest |-> unread tokens].
RECURSIVE ParseValue(_)
RECURSIVE ParseMembers(_, _)
ParseMembers(toks, acc) ==
    \* toks starts at a member's key
    LET key == Head(toks)[2]
        v == ParseValue(Tail(Tail(toks)))
        acc2 == DictSet(acc, key, v.val)
    IN IF Head(v.rest) = Comma
       THEN ParseMembers(Tail(v.rest), acc2)
       ELSE [val |-> PDict(acc2), rest |-> Tail(v.rest)]

ParseValue(toks) ==
    LET tk == Head(toks) IN
    CASE tk = Null -> [val |-> PNone, rest |-> Tail(toks)]
      [] tk[1] = "s" -> [val |-> PStr(tk[2]), rest |-> Tail(toks)]
      [] tk[1] = "n" -> [val |-> PInt(tk[2]), rest |-> Tail(toks)]
      [] OTHER ->
           IF Head(Tail(toks)) = RBrace
           THEN [val |-> PDict(<<>>), rest |-> Tail(Tail(toks))]
           ELSE ParseMembers(Tail(toks), <<>>)

Loads(text) == ParseValue(text).val

(***************************************************************************)
(* Inputs the callers draw from.                                           *)
(***************************************************************************)
\* event_type strings passed to record_event and fetch_events; record_event
\* stores any string, the empty one included
Types == {"HEARTBEAT", "heartbeat", ""}

\* a payload argument with a number, a null and a nested mapping
Nested ==
    PDict(<< <<"source", PStr("api")>>, <<"n", PInt(1)>>,
             <<"d", PDict(<< <<"k", PNone>> >>)>> >>)

\* the (event_type, payload) arguments of record_event: every type with the
\* payload absent, and one call with a payload
Calls == {<<et, PNone>> : et \in Types} \cup {<<"HEARTBEAT", Nested>>}

\* readings of the clock (datetime.now(), CURRENT_TIMESTAMP); no property of
\* the ledger depends on which instant is read
Times == {"T1"}

\* event_type arguments of fetch_events: None or a string
Filters == {PNone, PStr("HEARTBEAT"), PStr("")}

\* limit arguments of fetch_events; sqlite reads a negative LIMIT as no limit
Limits == {-1} \cup (1..MaxLimit)

Tasks == {"Cycle 1", "deploy"}

(***************************************************************************)
(* State.                                                                  *)
(***************************************************************************)
VARIABLES
    rows,       \* the ledger table as committed in the database file
    seq,        \* sqlite_sequence of the ledger table, as committed
    txn,        \* rows inserted on the connection and not yet committed
    closed,     \* the connection has been closed
    reopened,   \* the store in use is not the first one constructed on the file
    lock,       \* holder of SQLStore._lock
    pc,         \* where each thread stands
    frame,      \* the call each thread is executing
    gen,        \* the fetch_events generator each thread holds
    maxRet,     \* largest id any record_event call has returned so far
    assignLog,  \* every INSERT so far, in order: the id assigned and the
                \* event_type and payload arguments of its record_event call
    autonomy,   \* the "autonomy" section of the loaded configuration
    loop,       \* the AutonomyLoop of start_autonomy_loop.py
    sync,       \* a run of notion_to_sm_wif_hierarchical.py and the secret store
    tenant      \* a call of resolve_tenant_surface

vars == <<rows, seq, txn, closed, reopened, lock, pc, frame, gen, maxRet, assignLog,
          autonomy, loop, sync, tenant>>

\* what the store and the request handlers do not touch
others == <<autonomy, loop, sync, tenant>>

Free == <<"free", "-">>
ByCall(t) == <<"call", t>>
ByGen(t) == <<"gen", t>>

NoFrame ==
    [op |-> "none", event_type |-> "", payload |-> PNone, text |-> <<>>,
     ret |-> 0, floor |-> 0, aux |-> PNone, task |-> "", sends |-> <<>>,
     via |-> "none"]

NoGen == [st |-> "none", filter |-> PNone, limit |-> 0, res |-> <<>>, pos |-> 0,
          qseq |-> 0, out |-> <<>>]

\* an exhausted, closed or failed generator holds nothing any more
EndGen(st) == [NoGen EXCEPT !.st = st]

(***************************************************************************)
(* sqlite: the ledger table.                                               *)
(***************************************************************************)
\* variant: the schema step recreates the table (DROP TABLE, CREATE TABLE)
EnsureSchemaDrop(table) == <<>>

\* CREATE TABLE IF NOT EXISTS ledger: an existing table is left as it is
EnsureSchema(table) == table

\* variant: the id counts the rows of the current transaction only
NextRowIdPerTxn(s, pending) == Len(pending) + 1

\* id INTEGER PRIMARY KEY AUTOINCREMENT: one more than the largest id the
\* table has ever held, read on the connection (its own pending rows count)
NextRowId(s, pending) == s + Len(pending) + 1

\* Connection.__exit__ without an exception: commit
CommitTxn(table, pending) == table \o pending

\* variant: the operation does not wait for the lock
CanAcquireAny(l) == TRUE

\* threading.Lock.acquire succeeds only on a free lock
CanAcquire(l) == l = Free

\* WHERE event_type = ?  is added only when the argument is truthy
RowMatches(r, filter) == IF Truthy(filter) THEN r.event_type = filter[2] ELSE TRUE

RECURSIVE InsertDesc(_, _)
InsertDesc(sorted, r) ==
    IF sorted = <<>> THEN <<r>>
    ELSE IF r.id > Head(sorted).id THEN <<r>> \o sorted
    ELSE <<Head(sorted)>> \o InsertDesc(Tail(sorted), r)

RECURSIVE OrderByIdDesc(_)
OrderByIdDesc(rs) ==
    IF rs = <<>> THEN <<>> ELSE InsertDesc(OrderByIdDesc(Tail(rs)), Head(rs))

\* LIMIT ?
ApplyLimit(rs, n) ==
    IF n < 0 \/ n >= Len(rs) THEN rs ELSE SubSeq(rs, 1, n)

\* SELECT ... FROM ledger [WHERE event_type = ?] ORDER BY id DESC LIMIT ?
Select(table, filter, limit) ==
    ApplyLimit(OrderByIdDesc(SelectSeq(table, LAMBDA r : RowMatches(r, filter))), limit)

\* the dict fetch_events yields for a row
RowToEvent(r) ==
    [id |-> r.id, event_type |-> r.event_type,
     payload |-> Loads(IF r.payload = <<>> THEN Dumps(PDict(<<>>)) ELSE r.payload),
     created_at |-> r.created_at]

\* variant: json.dumps(payload), without the default for an absent payload
SerializeRaw(payload) == Dumps(payload)

\* json.dumps(payload or {})
Serialize(payload) == Dumps(OrEmptyDict(payload))

(***************************************************************************)
(* CustodianLedger.record, the relays and the response model.              *)
(***************************************************************************)
\* variant: the caller's payload is not merged into the entry
EnrichOnlyTimestamp(ts, payload) == PDict(<< <<"timestamp", PStr(ts)>> >>)

\* {"timestamp": now, **(payload or {})}
Enrich(ts, payload) ==
    PDict(DictUpdate(<< <<"timestamp", PStr(ts)>> >>, Items(OrEmptyDict(payload))))

Relays == <<"notion", "slack", "teamwork">>

RelayStatus(dest) ==
    CASE dest = "notion" -> "queued"
      [] dest = "slack" -> "delivered"
      [] OTHER -> "archived"

\* NotionRelay.send / SlackSignal.send / TeamworkSink.send
Send(dest, payload) ==
    PDict(<< <<"destination", PStr(dest)>>, <<"payload", payload>>,
             <<"status", PStr(RelayStatus(dest))>> >>)

\* ActivationResponse.responses: Dict[str, Dict[str, str]]
ValidResponses(v) ==
    /\ IsDict(v)
    /\ \A i \in 1..Len(Items(v)) :
         LET inner == Items(v)[i][2] IN
         /\ IsDict(inner)
         /\ \A j \in 1..Len(Items(inner)) : IsStr(Items(inner)[j][2])

\* no AutonomyLoop, no sync run and no resolve_tenant_surface call
NoLoop == [at |-> "off", cycle |-> 0, running |-> FALSE]

NoSync ==
    [at |-> "off", dry_run |-> FALSE, pages |-> <<>>, i |-> 0, synced |-> 0,
     secrets |-> {}, calls |-> <<>>, versions |-> <<>>, log |-> <<>>,
     secret_id |-> <<>>, raised |-> "none"]

NoTenant == [at |-> "off", host |-> <<>>, out |-> <<>>]

\* the store right after SQLStore.__init__ on a new database file
StoreInit ==
    /\ rows = EnsureSchema(<<>>)
    /\ seq = 0
    /\ txn = <<>>
    /\ closed = FALSE
    /\ reopened = FALSE
    /\ lock = Free
    /\ pc = [t \in Threads |-> "idle"]
    /\ frame = [t \in Threads |-> NoFrame]
    /\ gen = [t \in Threads |-> NoGen]
    /\ maxRet = 0
    /\ assignLog = <<>>

(***************************************************************************)
(* Initial state: SQLStore.__init__ on a new database file, with a         *)
(* configuration that has no autonomy settings.                            *)
(***************************************************************************)
Init ==
    /\ StoreInit
    /\ autonomy = PDict(<<>>)
    /\ loop = NoLoop
    /\ sync = NoSync
    /\ tenant = NoTenant

\* calls that have been started and have not reached their INSERT yet
Pending == {t \in Threads : pc[t] \in {"act_send", "act_record", "rec_wait"}}

MayInsert == Len(assignLog) + Cardinality(Pending) < MaxRows

Max(a, b) == IF a >= b THEN a ELSE b

(***************************************************************************)
(* SQLStore.record_event.  The statements a thread executes while it holds *)
(* the lock and that end at a point no other thread can observe are taken  *)
(* together with the lock operation next to them.                          *)
(***************************************************************************)
\* line 45: the payload is serialized before the lock is requested
CallRecord(t, et, p) ==
    /\ pc[t] = "idle"
    /\ MayInsert
    /\ frame' = [frame EXCEPT ![t] =
                   [NoFrame EXCEPT !.op = "record", !.event_type = et, !.payload = p,
                                   !.text = Serialize(p), !.floor = maxRet]]
    /\ pc' = [pc EXCEPT ![t] = "rec_wait"]
    /\ UNCHANGED <<rows, seq, txn, closed, reopened, lock, gen, maxRet, assignLog>>
    /\ UNCHANGED others

\* lines 46-51: the lock is taken, then INSERT and cursor.lastrowid; on a closed
\* connection execute raises ProgrammingError, both context managers exit and
\* the exception reaches the caller
RecInsert(t, ts) ==
    /\ pc[t] = "rec_wait"
    /\ CanAcquire(lock)
    /\ IF closed
       THEN /\ pc' = [pc EXCEPT ![t] = "idle"]
            /\ frame' = [frame EXCEPT ![t] = NoFrame]
            /\ UNCHANGED <<txn, assignLog, lock>>
       ELSE LET id == NextRowId(seq, txn) IN
            /\ lock' = ByCall(t)
            /\ txn' = Append(txn, [id |-> id, event_type |-> frame[t].event_type,
                                   payload |-> frame[t].text, created_at |-> ts])
            /\ assignLog' = Append(assignLog, [id |-> id, event_type |-> frame[t].event_type,
                                                payload |-> frame[t].payload])
            /\ frame' = [frame EXCEPT ![t].ret = id]
            /\ pc' = [pc EXCEPT ![t] = "rec_inserted"]
    /\ UNCHANGED <<rows, seq, closed, reopened, gen, maxRet>>
    /\ UNCHANGED others

\* line 46, leaving the with block: the connection commits, then the lock is
\* released
RecCommit(t) ==
    /\ pc[t] = "rec_inserted"
    /\ rows' = CommitTxn(rows, txn)
    /\ seq' = seq + Len(txn)
    /\ txn' = <<>>
    /\ lock' = Free
    /\ pc' = [pc EXCEPT ![t] = "rec_released"]
    /\ UNCHANGED <<closed, reopened, frame, gen, maxRet, assignLog>>
    /\ UNCHANGED others

\* what the operation hands back once record_event has returned: the id
\* (record_event), the emitter's own payload (emit), the responses (activate)
Returned(f) == IF f.op \in {"record", "autonomy"} THEN PInt(f.ret) ELSE f.aux

\* status of the HTTP response: constructing ActivationResponse validates the
\* responses and raises when they do not fit the declared type
HttpStatus(f) ==
    IF f.op = "activate" /\ ~ValidResponses(Returned(f)) THEN 500 ELSE 200

\* line 51: record_event returns the id, and the operation built on it returns
RecReturn(t) ==
    /\ pc[t] = "rec_released"
    /\ maxRet' = Max(maxRet, frame[t].ret)
    /\ frame' = [frame EXCEPT ![t] = NoFrame]
    /\ pc' = [pc EXCEPT ![t] = "idle"]
    /\ UNCHANGED <<rows, seq, txn, closed, reopened, lock, gen, assignLog>>
    /\ UNCHANGED others

(***************************************************************************)
(* SQLStore.fetch_events: a generator.  Calling it runs no code: the body  *)
(* starts inside the first next(), and the with block stays open across     *)
(* every yield.                                                            *)
(***************************************************************************)
\* fetch_events(event_type=filter, limit=limit) and the first next() on the
\* result: lines 59-65 build the query, then the lock is requested
CallFetch(t, filter, limit) ==
    /\ pc[t] = "idle"
    /\ gen[t].st \in {"none", "done", "failed", "closed"}
    /\ gen' = [gen EXCEPT ![t] = [NoGen EXCEPT !.st = "running", !.filter = filter,
                                               !.limit = limit]]
    /\ pc' = [pc EXCEPT ![t] = "gen_wait"]
    /\ UNCHANGED <<rows, seq, txn, closed, reopened, lock, frame, maxRet, assignLog>>
    /\ UNCHANGED others

\* lines 67-69: the lock is taken, then execute and fetchall; on a closed
\* connection execute raises and the lock is released again
GenQuery(t) ==
    /\ pc[t] = "gen_wait"
    /\ CanAcquire(lock)
    /\ IF closed
       THEN /\ gen' = [gen EXCEPT ![t] = EndGen("failed")]
            /\ pc' = [pc EXCEPT ![t] = "idle"]
            /\ UNCHANGED lock
       ELSE /\ gen' = [gen EXCEPT ![t].res = Select(rows \o txn, gen[t].filter, gen[t].limit),
                                  ![t].qseq = seq + Len(txn)]
            /\ lock' = ByGen(t)
            /\ pc' = [pc EXCEPT ![t] = "gen_iter"]
    /\ UNCHANGED <<rows, seq, txn, closed, reopened, frame, maxRet, assignLog>>
    /\ UNCHANGED others

\* lines 69-75: the loop yields the next row and suspends inside the with
\* block, or ends: the connection commits, the lock is released, and next()
\* raises StopIteration
Advance(t) ==
    /\ IF gen[t].pos < Len(gen[t].res)
       THEN /\ gen' = [gen EXCEPT ![t].pos = @ + 1, ![t].st = "suspended",
                                  ![t].out = Append(@, RowToEvent(gen[t].res[gen[t].pos + 1]))]
            /\ UNCHANGED <<rows, seq, txn, lock>>
       ELSE /\ gen' = [gen EXCEPT ![t] = EndGen("done")]
            /\ rows' = CommitTxn(rows, txn)
            /\ seq' = seq + Len(txn)
            /\ txn' = <<>>
            /\ lock' = Free
    /\ pc' = [pc EXCEPT ![t] = "idle"]
    /\ UNCHANGED <<closed, reopened, frame, maxRet, assignLog>>
    /\ UNCHANGED others

\* the first next() goes on from the query
GenStep(t) ==
    /\ pc[t] = "gen_iter"
    /\ Advance(t)

\* a later next(): the generator resumes inside the loop
GenNext(t) ==
    /\ pc[t] = "idle"
    /\ gen[t].st = "suspended"
    /\ Advance(t)

\* the caller drops or closes the generator: GeneratorExit is raised at the
\* yield, the connection rolls back and the lock is released
GenClose(t) ==
    /\ pc[t] = "idle"
    /\ gen[t].st = "suspended"
    /\ txn' = <<>>
    /\ lock' = Free
    /\ gen' = [gen EXCEPT ![t] = EndGen("closed")]
    /\ UNCHANGED <<rows, seq, closed, reopened, pc, frame, maxRet, assignLog>>
    /\ UNCHANGED others

(***************************************************************************)
(* SQLStore.close and a new SQLStore on the same file                      *)
(***************************************************************************)
CallClose(t) ==
    /\ pc[t] = "idle"
    /\ pc' = [pc EXCEPT ![t] = "close_wait"]
    /\ UNCHANGED <<rows, seq, txn, closed, reopened, lock, frame, gen, maxRet, assignLog>>
    /\ UNCHANGED others

\* line 78
CloseAcquire(t) ==
    /\ pc[t] = "close_wait"
    /\ CanAcquire(lock)
    /\ lock' = ByCall(t)
    /\ pc' = [pc EXCEPT ![t] = "close_locked"]
    /\ UNCHANGED <<rows, seq, txn, closed, reopened, frame, gen, maxRet, assignLog>>
    /\ UNCHANGED others

\* line 79 and the release of the lock: rows not committed are lost with the
\* connection
CloseRelease(t) ==
    /\ pc[t] = "close_locked"
    /\ closed' = TRUE
    /\ txn' = <<>>
    /\ lock' = Free
    /\ pc' = [pc EXCEPT ![t] = "idle"]
    /\ UNCHANGED <<rows, seq, reopened, frame, gen, maxRet, assignLog>>
    /\ UNCHANGED others

\* lines 20-26: once the store is closed and nobody uses it, a new SQLStore
\* is constructed on the same database file
Reopen ==
    /\ closed
    /\ \A t \in Threads : pc[t] = "idle" /\ gen[t].st \notin {"suspended", "running"}
    /\ rows' = EnsureSchema(rows)
    /\ closed' = FALSE
    /\ reopened' = TRUE
    /\ lock' = Free
    /\ txn' = <<>>
    /\ UNCHANGED <<seq, pc, frame, gen, maxRet, assignLog>>
    /\ UNCHANGED others

(***************************************************************************)
(* GET /heartbeat: HeartbeatEmitter.emit(source="api")                     *)
(***************************************************************************)
\* emit_heartbeat.py lines 21-25 and CustodianLedger.record lines 24-28, up
\* to the call of record_event; emit keeps its own payload to return it
HeartbeatCall(t, emitted, stamped) ==
    /\ pc[t] = "idle"
    /\ MayInsert
    /\ LET payload == PDict(<< <<"source", PStr("api")>>, <<"emitted_at", PStr(emitted)>> >>)
           enriched == Enrich(stamped, payload)
       IN frame' = [frame EXCEPT ![t] =
                      [NoFrame EXCEPT !.op = "heartbeat", !.event_type = "HEARTBEAT",
                                      !.payload = enriched, !.text = Serialize(enriched),
                                      !.aux = payload, !.floor = maxRet, !.via = "http"]]
    /\ pc' = [pc EXCEPT ![t] = "rec_wait"]
    /\ UNCHANGED <<rows, seq, txn, closed, reopened, lock, gen, maxRet, assignLog>>
    /\ UNCHANGED others

(***************************************************************************)
(* AgentHub.activate, called by POST /activate or directly                 *)
(***************************************************************************)
\* activate.py line 25
ActivateCall(t, task, via) ==
    /\ pc[t] = "idle"
    /\ MayInsert
    /\ frame' = [frame EXCEPT ![t] =
                   [NoFrame EXCEPT !.op = "activate", !.task = task, !.via = via,
                                   !.aux = PDict(<<>>)]]
    /\ pc' = [pc EXCEPT ![t] = "act_send"]
    /\ UNCHANGED <<rows, seq, txn, closed, reopened, lock, gen, maxRet, assignLog>>
    /\ UNCHANGED others

\* lines 26-30: the relays are called in the order the dict literal lists them
ActSend(t) ==
    /\ pc[t] = "act_send"
    /\ LET dest == Relays[Len(frame[t].sends) + 1]
           payload == PDict(<< <<"task", PStr(frame[t].task)>> >>)
       IN frame' = [frame EXCEPT
                      ![t].sends = Append(@, <<dest, payload>>),
                      ![t].aux = PDict(DictSet(Items(@), dest, Send(dest, payload)))]
    /\ pc' = [pc EXCEPT ![t] = IF Len(frame[t].sends) + 1 = Len(Relays)
                               THEN "act_record" ELSE "act_send"]
    /\ UNCHANGED <<rows, seq, txn, closed, reopened, lock, gen, maxRet, assignLog>>
    /\ UNCHANGED others

\* lines 31-37 and CustodianLedger.record, up to the call of record_event
ActRecord(t, stamped) ==
    /\ pc[t] = "act_record"
    /\ LET enriched == Enrich(stamped, PDict(<< <<"task", PStr(frame[t].task)>>,
                                                <<"responses", frame[t].aux>> >>))
       IN frame' = [frame EXCEPT ![t].event_type = "AGENT_ACTIVATION",
                                 ![t].payload = enriched,
                                 ![t].text = Serialize(enriched),
                                 ![t].floor = maxRet]
    /\ pc' = [pc EXCEPT ![t] = "rec_wait"]
    /\ UNCHANGED <<rows, seq, txn, closed, reopened, lock, gen, maxRet, assignLog>>
    /\ UNCHANGED others

(***************************************************************************)
(* The system                                                              *)
(***************************************************************************)
\* steps of a record_event call in progress
RecStep ==
    \/ \E t \in Threads, ts \in Times : RecInsert(t, ts)
    \/ \E t \in Threads : RecCommit(t)
    \/ \E t \in Threads : RecReturn(t)

\* the store used directly by threads
Next ==
    \/ \E t \in Threads, c \in Calls : CallRecord(t, c[1], c[2])
    \/ RecStep
    \/ \E t \in Threads, f \in Filters, n \in Limits : CallFetch(t, f, n)
    \/ \E t \in Threads : GenQuery(t)
    \/ \E t \in Threads : GenStep(t)
    \/ \E t \in Threads : GenNext(t)
    \/ \E t \in Threads : GenClose(t)
    \/ \E t \in Threads : CallClose(t)
    \/ \E t \in Threads : CloseAcquire(t)
    \/ \E t \in Threads : CloseRelease(t)
    \/ Reopen

Spec == Init /\ [][Next]_vars

\* the relay server: request handlers running on threads over one store
HubNext ==
    \/ \E t \in Threads, c \in Calls : CallRecord(t, c[1], c[2])
    \/ \E t \in Threads, e \in Times, s \in Times : HeartbeatCall(t, e, s)
    \/ \E t \in Threads, task \in Tasks, via \in {"http", "direct"} : ActivateCall(t, task, via)
    \/ \E t \in Threads : ActSend(t)
    \/ \E t \in Threads, s \in Times : ActRecord(t, s)
    \/ RecStep

HubSpec == Init /\ [][HubNext]_vars

(***************************************************************************)
(* Fair scheduling: a call that has started keeps taking its steps, and a  *)
(* thread waiting for the lock gets it if the lock is free again and       *)
(* again.  Whether a caller goes on consuming a suspended generator is the *)
(* caller's choice, so GenNext, like the start of any call, is not forced. *)
(***************************************************************************)
Fairness ==
    \A t \in Threads :
        /\ SF_vars(\E ts \in Times : RecInsert(t, ts))
        /\ SF_vars(GenQuery(t))
        /\ SF_vars(CloseAcquire(t))
        /\ WF_vars(RecCommit(t))
        /\ WF_vars(RecReturn(t))
        /\ WF_vars(GenStep(t))
        /\ WF_vars(CloseRelease(t))

FairSpec == Spec /\ Fairness

(***************************************************************************)
(* Vocabulary of the properties                                            *)
(***************************************************************************)
\* the table as the connection sees it
AllRows == rows \o txn

\* a record_event call that has its id
HasId(t) == pc[t] \in {"rec_inserted", "rec_released"}

\* the committed rows carrying the id a call was given
RowsOf(t) == {i \in 1..Len(rows) : rows[i].id = frame[t].ret}

\* the thread is between taking and releasing the lock inside an operation
InRecord(t) == pc[t] = "rec_inserted"
InFetch(t) == pc[t] = "gen_iter" \/ gen[t].st = "suspended"
InClose(t) == pc[t] = "close_locked"

\* the generator of t has run its query and not ended
Queried(t) == pc[t] = "gen_iter" \/ gen[t].st = "suspended"

Min(a, b) == IF a <= b THEN a ELSE b

(***************************************************************************)
(* Properties of SQLStore                                                  *)
(***************************************************************************)
\* two record_event calls in flight at the same time on one store are given
\* distinct ids, and a call that is about to return its id has its row, with
\* the event_type and payload it was called with, committed exactly once in
\* the ledger
DistinctCommitted_Holds ==
    /\ \A t, u \in Threads :
         (t # u /\ HasId(t) /\ HasId(u)) => frame[t].ret # frame[u].ret
    /\ \A t \in Threads :
         pc[t] = "rec_released" =>
            /\ Cardinality(RowsOf(t)) = 1
            /\ \A i \in RowsOf(t) :
                 /\ rows[i].event_type = frame[t].event_type
                 /\ rows[i].payload = frame[t].text

\* two threads are inside record_event together on an open store, both
\* waiting for the lock
BothWaiting(t, u) == t # u /\ pc[t] = "rec_wait" /\ pc[u] = "rec_wait" /\ ~closed

\* C1: of two record_event calls issued concurrently from different threads
\* on one store, both return (unless the store is closed under them); their
\* ids are distinct; and each call that is about to return has its row
\* committed exactly once in the ledger, so that both rows are there
\* afterwards.
C1_ConcurrentRecords ==
    /\ []DistinctCommitted_Holds
    /\ \A t, u \in Threads : BothWaiting(t, u) ~> (pc[t] = "rec_released" \/ closed)

\* the one thing that keeps either call from returning is a fetch_events
\* generator holding the lock
BothReturn_Holds ==
    \A t, u \in Threads :
        BothWaiting(t, u) ~> (pc[t] = "rec_released" \/ closed \/ lock[1] = "gen")

\* C2: at most one of record_event, fetch_events (from taking the lock for
\* its query to the end of its iteration, suspended at a yield included) and
\* close is inside the connection, and whoever is inside holds the lock.
C2_MutualExclusion ==
    /\ Cardinality({t \in Threads : InRecord(t) \/ InFetch(t) \/ InClose(t)}) <= 1
    /\ \A t \in Threads :
         /\ (InRecord(t) \/ InClose(t)) => lock = ByCall(t)
         /\ InFetch(t) => lock = ByGen(t)

\* a generator suspended at a yield while another thread waits for the lock
C2_Witness ==
    \E t, u \in Threads :
        /\ t # u
        /\ gen[t].st = "suspended" /\ pc[t] = "idle"
        /\ gen[t].pos < Len(gen[t].res)
        /\ pc[u] \in {"rec_wait", "gen_wait", "close_wait"}

\* C3: under fair scheduling every started record_event call, every next()
\* on a fetch_events result and every close call eventually completes.
C3_NoBlocking ==
    \A t \in Threads : (pc[t] # "idle") ~> (pc[t] = "idle")

\* C4: ids are assigned by the store in strictly increasing order, so none is
\* assigned twice, also across store instances on the same file; the ids in
\* the ledger are unique; and the id a call returns is larger than every id
\* returned before that call started.
C4_IdsIncreasing ==
    /\ \A i \in 1..Len(assignLog) :
         /\ assignLog[i].id >= 1
         /\ \A j \in 1..Len(assignLog) : i < j => assignLog[i].id < assignLog[j].id
    /\ \A i, j \in 1..Len(AllRows) : i < j => AllRows[i].id < AllRows[j].id
    /\ \A t \in Threads : HasId(t) => frame[t].ret > frame[t].floor

\* a call on the second store instance returns an id above one returned on
\* the first
C4_Witness ==
    \E t \in Threads :
        /\ reopened
        /\ pc[t] = "rec_released"
        /\ frame[t].floor >= 1
        /\ frame[t].ret > frame[t].floor
        /\ Len(rows) = 2

\* C5: the ledger is append-only.  The only step that changes the committed
\* table is the commit of a record_event call, which appends exactly the row
\* of that call and leaves every earlier row as it was; fetch_events, close
\* and constructing a store on the existing file change nothing.
C5_AppendOnly ==
    [][ \/ rows' = rows
        \/ \E t \in Threads :
             /\ pc[t] = "rec_inserted" /\ pc'[t] = "rec_released"
             /\ Len(rows') = Len(rows) + 1
             /\ SubSeq(rows', 1, Len(rows)) = rows
             /\ rows'[Len(rows')].id = frame[t].ret
             /\ rows'[Len(rows')].event_type = frame[t].event_type
             /\ rows'[Len(rows')].payload = frame[t].text ]_vars

\* a second store instance on a file that holds rows, after a fetch and a close
C5_Witness ==
    /\ reopened
    /\ ~closed
    /\ Len(rows) = 2
    /\ \E t \in Threads : gen[t].st = "done"

\* the record_event call that made the newest row the query of t's generator saw
NewestAt(t) == {i \in 1..Len(assignLog) : assignLog[i].id = gen[t].qseq}

\* C6: when fetch_events(event_type=X), X non-empty, limit >= 1, runs its
\* query with the row of a record_event(X, payload) call as the newest row of
\* the ledger, it yields an event, and the first event it yields has the id
\* given to that call, event_type X and the payload of the call, an absent
\* payload read back as the empty mapping.
C6_RoundTrip ==
    \A t \in Threads : \A i \in NewestAt(t) :
        LET call == assignLog[i] IN
        ( /\ Queried(t)
          /\ gen[t].limit >= 1
          /\ call.event_type # ""
          /\ gen[t].filter = PStr(call.event_type) )
        => /\ Len(gen[t].res) >= 1
           /\ gen[t].pos >= 1 =>
                /\ gen[t].out[1].id = call.id
                /\ gen[t].out[1].event_type = call.event_type
                /\ gen[t].out[1].payload = OrEmptyDict(call.payload)

\* the first event of such a fetch has been yielded, with a nested payload
C6_Witness ==
    \E t \in Threads : \E i \in NewestAt(t) :
        /\ gen[t].st = "suspended"
        /\ gen[t].limit >= 1
        /\ gen[t].filter = PStr("HEARTBEAT")
        /\ assignLog[i].event_type = "HEARTBEAT"
        /\ Len(rows) = 2
        /\ gen[t].out[1].id = 2
        /\ Truthy(gen[t].out[1].payload)

\* the events a filter selects: all of them when no filter is supplied,
\* those of exactly that type when one is
Matching(table, filter) ==
    SelectSeq(table, LAMBDA r : filter = PNone \/ r.event_type = filter[2])

\* C7: for every limit N >= 1, with or without a type filter, the result of
\* the query is in strictly descending id order, holds exactly the
\* min(N, number of matching events) matching events with the largest ids,
\* so never more than N, and is empty when nothing matches; the events
\* yielded are that result, in that order.
C7_FetchLimit ==
    \A t \in Threads :
        (Queried(t) /\ gen[t].limit >= 1) =>
          LET res == gen[t].res
              match == Matching(AllRows, gen[t].filter)
              n == Min(gen[t].limit, Len(match))
          IN /\ Len(res) = n
             /\ Len(res) <= gen[t].limit
             /\ \A i, j \in 1..Len(res) : i < j => res[i].id > res[j].id
             /\ \A i \in 1..Len(res) : res[i] = match[Len(match) + 1 - i]
             /\ Len(gen[t].out) = gen[t].pos
             /\ \A i \in 1..gen[t].pos : gen[t].out[i] = RowToEvent(res[i])

\* C8: whenever a filter value X is supplied, every event of the result has
\* event_type X exactly.
C8_ExactFilter ==
    \A t \in Threads :
        (Queried(t) /\ gen[t].filter # PNone) =>
            \A i \in 1..Len(gen[t].res) : gen[t].res[i].event_type = gen[t].filter[2]

\* C7 and C8 for the filters fetch_events applies: None or a non-empty string
FilterApplied_Holds ==
    \A t \in Threads :
        (Queried(t) /\ gen[t].filter # PStr("")) =>
          LET res == gen[t].res
              match == Matching(AllRows, gen[t].filter)
          IN /\ gen[t].limit >= 1 => Len(res) = Min(gen[t].limit, Len(match))
             /\ \A i \in 1..Len(res) : res[i] = match[Len(match) + 1 - i]

(***************************************************************************)
(* Properties of the relay server's handlers                               *)
(***************************************************************************)
Keys(d) == {Items(d)[i][1] : i \in 1..Len(Items(d))}

\* equality of two dicts as Python compares them: same keys, same values,
\* whatever the insertion order
SameDict(a, b) ==
    /\ Keys(a) = Keys(b)
    /\ \A k \in Keys(a) : DictGet(Items(a), k) = DictGet(Items(b), k)

\* the payload stored in committed row i, as fetch_events would read it
StoredPayload(i) == RowToEvent(rows[i]).payload

\* the only change a step of thread t's operation makes to the INSERT log:
\* its INSERT appends one entry, every other step of the operation none
OneInsert(t, et) ==
    IF pc[t] = "rec_wait" /\ pc'[t] = "rec_inserted"
    THEN /\ Len(assignLog') = Len(assignLog) + 1
         /\ SubSeq(assignLog', 1, Len(assignLog)) = assignLog
         /\ assignLog'[Len(assignLog')].event_type = et
         /\ assignLog'[Len(assignLog')].id = frame'[t].ret
    ELSE assignLog' = assignLog

\* C9 as claimed: the mapping a heartbeat request returns equals the payload
\* stored for the row it appended.
C9_HeartbeatReturnsStored ==
    \A t \in Threads :
        (pc[t] = "rec_released" /\ frame[t].op = "heartbeat") =>
            \A i \in RowsOf(t) : SameDict(Returned(frame[t]), StoredPayload(i))

\* C9 as amended: a heartbeat request appends exactly one event, of type
\* HEARTBEAT, and no other; the payload stored for it is the mapping the
\* request returns (source and emitted_at) together with the timestamp key
\* that CustodianLedger.record adds.
C9_HeartbeatStoredPlusTimestamp ==
    /\ [] \A t \in Threads :
            (pc[t] = "rec_released" /\ frame[t].op = "heartbeat") =>
                /\ Cardinality(RowsOf(t)) = 1
                /\ HttpStatus(frame[t]) = 200
                /\ Keys(Returned(frame[t])) = {"source", "emitted_at"}
                /\ \A i \in RowsOf(t) :
                     /\ rows[i].event_type = "HEARTBEAT"
                     /\ Keys(StoredPayload(i)) = Keys(Returned(frame[t])) \cup {"timestamp"}
                     /\ \A k \in Keys(Returned(frame[t])) :
                          DictGet(Items(StoredPayload(i)), k) = DictGet(Items(Returned(frame[t])), k)
    /\ [][ \A t \in Threads :
             (frame'[t].op = "heartbeat" /\ pc'[t] # pc[t]) => OneInsert(t, "HEARTBEAT") ]_vars

\* a heartbeat request about to return, its row committed
C9_Witness ==
    \E t \in Threads :
        /\ pc[t] = "rec_released"
        /\ frame[t].op = "heartbeat"
        /\ Cardinality(RowsOf(t)) = 1
        /\ Len(rows) = 2

\* the three calls activate(task) makes, in order
ExpectedSends(task) ==
    [k \in 1..3 |-> <<Relays[k], PDict(<< <<"task", PStr(task)>> >>)>>]

\* C10: activate(task), called directly or by POST /activate, calls notion,
\* slack and teamwork once each with {task: task}, records one
\* AGENT_ACTIVATION event only after the three sends, with a payload holding
\* the task and the three responses, and returns those three responses keyed
\* notion/slack/teamwork: the handler of POST /activate answers with them.
C10_Activate ==
    \A t \in Threads :
        /\ (frame[t].op = "activate" /\ pc[t] \notin {"act_send", "act_record"}) =>
               frame[t].sends = ExpectedSends(frame[t].task)
        /\ (frame[t].op = "activate" /\ pc[t] \in {"act_send", "act_record"}) =>
               /\ frame[t].ret = 0
               /\ frame[t].sends = SubSeq(ExpectedSends(frame[t].task), 1, Len(frame[t].sends))
        /\ (frame[t].op = "activate" /\ pc[t] = "rec_released") =>
               /\ Cardinality(RowsOf(t)) = 1
               /\ Keys(Returned(frame[t])) = {"notion", "slack", "teamwork"}
               /\ \A k \in 1..3 :
                    DictGet(Items(Returned(frame[t])), Relays[k])
                        = Send(Relays[k], PDict(<< <<"task", PStr(frame[t].task)>> >>))
               /\ \A i \in RowsOf(t) :
                    /\ rows[i].event_type = "AGENT_ACTIVATION"
                    /\ DictGet(Items(StoredPayload(i)), "task") = PStr(frame[t].task)
                    /\ DictGet(Items(StoredPayload(i)), "responses") = Returned(frame[t])
               /\ frame[t].via = "http" => HttpStatus(frame[t]) = 200

\* C10 for AgentHub.activate itself, whoever calls it
ActivateDirect_Holds ==
    \A t \in Threads :
        (frame[t].op = "activate" /\ pc[t] = "rec_released") =>
            /\ frame[t].sends = ExpectedSends(frame[t].task)
            /\ Cardinality(RowsOf(t)) = 1
            /\ Keys(Returned(frame[t])) = {"notion", "slack", "teamwork"}
            /\ \A i \in RowsOf(t) :
                 /\ rows[i].event_type = "AGENT_ACTIVATION"
                 /\ DictGet(Items(StoredPayload(i)), "task") = PStr(frame[t].task)
                 /\ DictGet(Items(StoredPayload(i)), "responses") = Returned(frame[t])

(***************************************************************************)
(* scripts/notion_to_sm_wif_hierarchical.py: the sync of Notion pages into *)
(* Secret Manager.  A text is a sequence of one-character strings.  The    *)
(* secret store answers each call with one of the outcomes its API has.    *)
(***************************************************************************)
MaxPages == 2

storeVars == <<rows, seq, txn, closed, reopened, lock, pc, frame, gen, maxRet, assignLog>>

\* str.lower on one character
LowerChar(c) ==
    CASE c = "K" -> "k"
      [] c = "P" -> "p"
      [] c = "S" -> "s"
      [] c = "T" -> "t"
      [] OTHER -> c

\* the characters the pattern [^a-z0-9_-] leaves alone
IdChars == {"k", "p", "s", "t", "1", "2", "_", "-"}

RECURSIVE LStrip(_)
LStrip(text) ==
    IF text # <<>> /\ Head(text) = " " THEN LStrip(Tail(text)) ELSE text

RECURSIVE RStrip(_)
RStrip(text) ==
    IF text # <<>> /\ text[Len(text)] = " "
    THEN RStrip(SubSeq(text, 1, Len(text) - 1)) ELSE text

\* str.strip
Strip(text) == RStrip(LStrip(text))

\* lines 122-124: lower, spaces to underscores, then every other character
\* outside a-z 0-9 _ - to an underscore
sanitize_component(component) ==
    [i \in 1..Len(component) |->
        LET c == LowerChar(component[i])
            d == IF c = " " THEN "_" ELSE c
        IN IF d \in IdChars THEN d ELSE "_"]

\* lines 129-133: the five parts of maos/<env>/<tenant>/<system>/<name>
build_secret_id(env, tenant_, system, name) ==
    <<<<"m", "a", "o", "s">>, sanitize_component(env), sanitize_component(tenant_),
      sanitize_component(system), sanitize_component(name)>>

\* a Notion page, each property as extract_text returns it (empty when the
\* property is absent)
Page(id, name, secret, env) ==
    [id |-> id, Name |-> name, Secret |-> secret, Tenant |-> <<"T">>,
     System |-> <<"S">>, Env |-> env]

\* two pages that sanitize to the same secret id, a third secret, a page
\* without a secret value and a page whose Env is blank
PageKinds ==
    {Page("p1", <<"K", " ", "1">>, <<"s">>, <<"P">>),
     Page("p2", <<"k", "_", "1">>, <<"s", "2">>, <<" ", "p">>),
     Page("p3", <<"k", "$">>, <<"s">>, <<"P">>),
     Page("p4", <<"K">>, <<>>, <<"P">>),
     Page("p5", <<"K">>, <<"s">>, <<" ">>)}

PageSeqs == UNION {[1..n -> PageKinds] : n \in 0..MaxPages}

\* the secrets the project holds before the run
ExistingSecrets == {{}, {build_secret_id(<<"P">>, <<"T">>, <<"S">>, <<"K", " ", "1">>)}}

\* lines 187-189: get(field)
Field(page, f) == Strip(page[f])

\* line 197
Complete(page) ==
    \A f \in {"Name", "Secret", "Tenant", "System", "Env"} : Field(page, f) # <<>>

\* main() has parsed its arguments
SyncInit ==
    /\ StoreInit
    /\ autonomy = PDict(<<>>)
    /\ loop = NoLoop
    /\ tenant = NoTenant
    /\ sync \in {[NoSync EXCEPT !.at = "start", !.dry_run = d, !.pages = ps, !.secrets = ex] :
                    d \in BOOLEAN, ps \in PageSeqs, ex \in ExistingSecrets}

\* lines 176-183
SyncFetch ==
    /\ sync.at = "start"
    /\ IF sync.pages = <<>>
       THEN sync' = [sync EXCEPT !.at = "done", !.log = Append(@, <<"No pages returned">>)]
       ELSE sync' = [sync EXCEPT !.at = "page", !.i = 1, !.synced = 0,
                                 !.log = Append(@, <<"Fetched", Len(sync.pages)>>)]
    /\ UNCHANGED <<storeVars, autonomy, loop, tenant>>

\* lines 184-202 and the start of the call in line 204
SyncPage ==
    /\ sync.at = "page"
    /\ sync.i <= Len(sync.pages)
    /\ LET page == sync.pages[sync.i]
           secret_id == build_secret_id(Field(page, "Env"), Field(page, "Tenant"),
                                        Field(page, "System"), Field(page, "Name"))
       IN IF ~Complete(page)
          THEN sync' = [sync EXCEPT !.i = @ + 1, !.log = Append(@, <<"Skipping", page.id>>)]
          ELSE IF sync.dry_run
          THEN sync' = [sync EXCEPT !.i = @ + 1,
                                    !.log = Append(@, <<"Would upsert", secret_id,
                                                        Len(Field(page, "Secret"))>>)]
          ELSE sync' = [sync EXCEPT !.at = "create", !.secret_id = secret_id]
    /\ UNCHANGED <<storeVars, autonomy, loop, tenant>>

CreateOutcomes == {"ok", "AlreadyExists", "PermissionDenied", "Exception"}

\* upsert_secret lines 138-158: create_secret and the except clauses; after
\* the return in line 155 main counts the page (line 205) and goes on
SyncCreate(outcome) ==
    /\ sync.at = "create"
    /\ outcome = "ok" => sync.secret_id \notin sync.secrets
    /\ outcome = "AlreadyExists" => sync.secret_id \in sync.secrets
    /\ LET call == [op |-> "create_secret", secret_id |-> sync.secret_id,
                    outcome |-> outcome, page |-> sync.i]
       IN CASE outcome = "ok" ->
                 sync' = [sync EXCEPT !.calls = Append(@, call),
                                      !.secrets = @ \cup {sync.secret_id},
                                      !.log = Append(@, <<"Created secret", sync.secret_id>>),
                                      !.at = "add"]
            [] outcome = "AlreadyExists" ->
                 sync' = [sync EXCEPT !.calls = Append(@, call),
                                      !.log = Append(@, <<"already exists", sync.secret_id>>),
                                      !.at = "add"]
            [] outcome = "PermissionDenied" ->
                 sync' = [sync EXCEPT !.calls = Append(@, call),
                                      !.log = Append(@, <<"Permission denied", sync.secret_id>>),
                                      !.synced = @ + 1, !.i = @ + 1, !.at = "page"]
            [] OTHER ->
                 sync' = [sync EXCEPT !.calls = Append(@, call),
                                      !.log = Append(@, <<"Unexpected error", sync.secret_id>>),
                                      !.at = "add"]
    /\ UNCHANGED <<storeVars, autonomy, loop, tenant>>

AddOutcomes == {"ok", "PermissionDenied", "NotFound"}

\* upsert_secret lines 160-165, outside any try: a version is added and main
\* counts the page (line 205), or the exception leaves upsert_secret and
\* main, which has no handler either
SyncAddVersion(outcome) ==
    /\ sync.at = "add"
    /\ outcome = "ok" => sync.secret_id \in sync.secrets
    /\ outcome = "NotFound" => sync.secret_id \notin sync.secrets
    /\ LET call == [op |-> "add_secret_version", secret_id |-> sync.secret_id,
                    outcome |-> outcome, page |-> sync.i]
       IN IF outcome = "ok"
          THEN sync' = [sync EXCEPT
                          !.calls = Append(@, call),
                          !.versions = Append(@, [secret_id |-> sync.secret_id,
                                                  data |-> Field(sync.pages[sync.i], "Secret"),
                                                  page |-> sync.i]),
                          !.log = Append(@, <<"Added secret version", sync.secret_id>>),
                          !.synced = @ + 1, !.i = @ + 1, !.at = "page"]
          ELSE sync' = [sync EXCEPT !.calls = Append(@, call), !.raised = outcome,
                                    !.at = "raised"]
    /\ UNCHANGED <<storeVars, autonomy, loop, tenant>>

\* lines 207-208
SyncFinish ==
    /\ sync.at = "page"
    /\ sync.i > Len(sync.pages)
    /\ sync' = [sync EXCEPT !.at = "done",
                            !.log = IF sync.dry_run THEN @
                                    ELSE Append(@, <<"Synced", sync.synced>>)]
    /\ UNCHANGED <<storeVars, autonomy, loop, tenant>>

SyncNext ==
    \/ SyncFetch
    \/ SyncPage
    \/ \E outcome \in CreateOutcomes : SyncCreate(outcome)
    \/ \E outcome \in AddOutcomes : SyncAddVersion(outcome)
    \/ SyncFinish

SyncSpec == SyncInit /\ [][SyncNext]_vars

\* a call made for page j was refused for lack of permission
Denied(j) ==
    \E k \in 1..Len(sync.calls) :
        sync.calls[k].page = j /\ sync.calls[k].outcome = "PermissionDenied"

\* create_secret for page j found the secret in place
Existed(j) ==
    \E k \in 1..Len(sync.calls) :
        sync.calls[k].page = j /\ sync.calls[k].outcome = "AlreadyExists"

\* a secret version was added for page j
VersionFor(j) == \E k \in 1..Len(sync.versions) : sync.versions[k].page = j

\* the refusal met for page j is in the output
DenialLogged(j) ==
    \E k \in 1..Len(sync.calls), n \in 1..Len(sync.log) :
        /\ sync.calls[k].page = j
        /\ sync.calls[k].outcome = "PermissionDenied"
        /\ sync.log[n] = <<"Permission denied", sync.calls[k].secret_id>>

\* C11: a permission failure on any call made for a page (create_secret or
\* add_secret_version) is logged, no version is written for that page and
\* the run is not ended by it, so that every remaining page is processed; a
\* page whose secret already exists gets a new version once it is processed.
C11_PermissionSkips ==
    \A j \in 1..Len(sync.pages) :
        /\ Denied(j) => DenialLogged(j) /\ ~VersionFor(j) /\ sync.at # "raised"
        /\ (Existed(j) /\ ~Denied(j) /\ sync.i > j) => VersionFor(j)

(***************************************************************************)
(* scripts/codex_portal_secret_loader.py: resolve_tenant_surface.  A host  *)
(* is the sequence of its labels, the parts between the dots; a label may  *)
(* be empty.                                                               *)
(***************************************************************************)
MaxLabels == 3

HostLabels ==
    {"activ8ai", "Activ8AI", "app", "leverageway", "LEVERAGEWAY", "com",
     "clients", "partners", "Partners", "www", ""}

Hosts == UNION {[1..n -> HostLabels] : n \in 1..MaxLabels}

\* str.lower on a label
LowerLabel(l) ==
    CASE l = "Activ8AI" -> "activ8ai"
      [] l = "LEVERAGEWAY" -> "leverageway"
      [] l = "Partners" -> "partners"
      [] OTHER -> l

\* line 61
LowerHost(host) == [i \in 1..Len(host) |-> LowerLabel(host[i])]

TenantSurface(t, s) == [tenant |-> t, surface |-> s]

\* line 71: re.match of ([^.]+)\.([^.]+)\.([^.]+) needs three non-empty
\* labels at the start of the host and ignores what follows them
FallbackMatch(h) == Len(h) >= 3 /\ h[1] # "" /\ h[2] # "" /\ h[3] # ""

\* lines 61-77
resolve_tenant_surface(host) ==
    LET h == LowerHost(host)
    IN IF h = <<"activ8ai", "app">> THEN TenantSurface("activ8ai", "codex_portal")
       ELSE IF h = <<"leverageway", "com">> THEN TenantSurface("leverage", "marketing_site")
       ELSE IF h = <<"clients", "leverageway", "com">>
       THEN TenantSurface("leverage", "client_portal")
       ELSE IF h = <<"partners", "leverageway", "com">>
       THEN TenantSurface("leverage", "partner_portal")
       ELSE IF FallbackMatch(h) THEN TenantSurface(h[2], h[1])
       ELSE TenantSurface("unknown", "unknown")

\* a caller is about to resolve some host
TenantInit ==
    /\ StoreInit
    /\ autonomy = PDict(<<>>)
    /\ loop = NoLoop
    /\ sync = NoSync
    /\ tenant \in {[NoTenant EXCEPT !.at = "called", !.host = h] : h \in Hosts}

\* resolve_tenant_surface(host) returns
Resolve ==
    /\ tenant.at = "called"
    /\ tenant' = [tenant EXCEPT !.at = "returned", !.out = resolve_tenant_surface(tenant.host)]
    /\ UNCHANGED <<storeVars, autonomy, loop, sync>>

TenantNext == Resolve

TenantSpec == TenantInit /\ [][TenantNext]_vars

\* the four hosts of the docstring (lines 55-58), written in any case
IsHost(host, labels) == LowerHost(host) = labels

\* C12: resolve_tenant_surface maps activ8ai.app to (activ8ai, codex_portal),
\* clients.leverageway.com to (leverage, client_portal),
\* partners.leverageway.com to (leverage, partner_portal) and leverageway.com
\* to (leverage, marketing_site), whatever the case of the letters, and
\* every other host to (unknown, unknown).
C12_ResolveTenantSurface ==
    tenant.at = "returned" =>
        tenant.out =
            CASE IsHost(tenant.host, <<"activ8ai", "app">>) ->
                   TenantSurface("activ8ai", "codex_portal")
              [] IsHost(tenant.host, <<"clients", "leverageway", "com">>) ->
                   TenantSurface("leverage", "client_portal")
              [] IsHost(tenant.host, <<"partners", "leverageway", "com">>) ->
                   TenantSurface("leverage", "partner_portal")
              [] IsHost(tenant.host, <<"leverageway", "com">>) ->
                   TenantSurface("leverage", "marketing_site")
              [] OTHER -> TenantSurface("unknown", "unknown")

\* the four hosts the docstring names resolve as it says, in any case of
\* the letters, and a host of fewer than three labels that is none of them
\* resolves to (unknown, unknown)
NamedHosts_Hold ==
    (tenant.at = "returned" /\ (~FallbackMatch(LowerHost(tenant.host))
                                \/ IsHost(tenant.host, <<"clients", "leverageway", "com">>)
                                \/ IsHost(tenant.host, <<"partners", "leverageway", "com">>)))
        => C12_ResolveTenantSurface

(***************************************************************************)
(* CustodianLedger.record_autonomy_loop                                    *)
(***************************************************************************)
\* the autonomy section of the configuration: empty, or with a loop label
Autonomies ==
    {PDict(<<>>),
     PDict(<< <<"loop_interval_seconds", PInt(5)>> >>),
     PDict(<< <<"loop_label", PStr("CODEX_LOOP")>> >>)}

\* custodian_ledger.py line 21
loop_label ==
    IF HasKey(Items(autonomy), "loop_label")
    THEN DictGet(Items(autonomy), "loop_label")[2]
    ELSE "AUTONOMY_LOOP"

Steps == {"Cycle 1", "boot"}

DetailSets ==
    {PNone,
     PDict(<<>>),
     PDict(<< <<"cycle", PInt(1)>> >>),
     PDict(<< <<"step", PStr("other")>> >>),
     PDict(<< <<"cycle", PInt(1)>>, <<"step", PStr("other")>> >>),
     PDict(<< <<"timestamp", PStr("T0")>> >>)}

StepPayloadNoDetails(step, details) == PDict(<< <<"step", PStr(step)>> >>)

\* lines 31-34: {"step": step, **(details or {})}
StepPayload(step, details) ==
    PDict(DictUpdate(<< <<"step", PStr(step)>> >>, Items(OrEmptyDict(details))))

\* the frame of record_autonomy_loop(step, details) at its call of
\* record_event: lines 31-35 and CustodianLedger.record lines 24-28
AutonomyFrame(step, details, stamped) ==
    LET enriched == Enrich(stamped, StepPayload(step, details))
    IN [NoFrame EXCEPT !.op = "autonomy", !.event_type = loop_label,
                       !.payload = enriched, !.text = Serialize(enriched),
                       !.task = step, !.aux = details, !.floor = maxRet]

\* record_autonomy_loop(step, details) called by a thread
RecordAutonomyCall(t, step, details, stamped) ==
    /\ pc[t] = "idle"
    /\ MayInsert
    /\ frame' = [frame EXCEPT ![t] = AutonomyFrame(step, details, stamped)]
    /\ pc' = [pc EXCEPT ![t] = "rec_wait"]
    /\ UNCHANGED <<rows, seq, txn, closed, reopened, lock, gen, maxRet, assignLog>>
    /\ UNCHANGED others

\* CustodianLedger.__init__ has read the configuration
LedgerInit ==
    /\ StoreInit
    /\ autonomy \in Autonomies
    /\ loop = NoLoop
    /\ sync = NoSync
    /\ tenant = NoTenant

LedgerNext ==
    \/ \E t \in Threads, step \in Steps, details \in DetailSets, s \in Times :
          RecordAutonomyCall(t, step, details, s)
    \/ RecStep

LedgerSpec == LedgerInit /\ [][LedgerNext]_vars

\* the details argument as the merge reads it
DetailsOf(f) == OrEmptyDict(f.aux)

\* a record_autonomy_loop call about to return, its row committed
AutonomyDone(t) == pc[t] = "rec_released" /\ frame[t].op = "autonomy"

\* C13 as claimed: the stored payload holds the key step with the value of
\* the step argument, and every key/value of details.
C13_StepAndDetails ==
    \A t \in Threads :
        AutonomyDone(t) =>
            \A i \in RowsOf(t) :
                /\ rows[i].event_type = loop_label
                /\ HasKey(Items(StoredPayload(i)), "step")
                /\ DictGet(Items(StoredPayload(i)), "step") = PStr(frame[t].task)
                /\ \A k \in Keys(DetailsOf(frame[t])) :
                     DictGet(Items(StoredPayload(i)), k) = DictGet(Items(DetailsOf(frame[t])), k)

\* C13 as amended: record_autonomy_loop(step, details) appends exactly one
\* event and no other; its event_type is the loop label of the
\* configuration, AUTONOMY_LOOP when none is configured; its payload holds
\* every key/value of details, the key step, whose value is the step
\* argument unless details has a step key of its own, and beyond those only
\* the timestamp key.
C13_StepUnlessInDetails ==
    /\ [] \A t \in Threads :
            AutonomyDone(t) =>
                /\ Cardinality(RowsOf(t)) = 1
                /\ Returned(frame[t]) = PInt(frame[t].ret)
                /\ \A i \in RowsOf(t) :
                     /\ rows[i].event_type = loop_label
                     /\ ~HasKey(Items(autonomy), "loop_label") => rows[i].event_type = "AUTONOMY_LOOP"
                     /\ Keys(StoredPayload(i)) =
                          {"timestamp", "step"} \cup Keys(DetailsOf(frame[t]))
                     /\ \A k \in Keys(DetailsOf(frame[t])) :
                          DictGet(Items(StoredPayload(i)), k) = DictGet(Items(DetailsOf(frame[t])), k)
                     /\ "step" \notin Keys(DetailsOf(frame[t])) =>
                          DictGet(Items(StoredPayload(i)), "step") = PStr(frame[t].task)
    /\ [][ \A t \in Threads :
             (frame'[t].op = "autonomy" /\ pc'[t] # pc[t]) => OneInsert(t, loop_label) ]_vars

\* a call whose details carry a step key of their own, under a configured
\* label, about to return with its row committed after an earlier event
C13_Witness ==
    \E t \in Threads :
        /\ AutonomyDone(t)
        /\ "step" \in Keys(DetailsOf(frame[t]))
        /\ "cycle" \in Keys(DetailsOf(frame[t]))
        /\ loop_label = "CODEX_LOOP"
        /\ Cardinality(RowsOf(t)) = 1
        /\ Len(rows) = 2

(***************************************************************************)
(* scripts/start_autonomy_loop.py: AutonomyLoop.run on the main thread,    *)
(* with its own CustodianLedger and AgentHub over the default store.       *)
(***************************************************************************)
MaxCycles == 2

\* the thread that runs the loop
Main == "t1"

NextCycleSkip(cycle) == cycle + 2

\* line 37
NextCycle(cycle) == cycle + 1

\* line 38: f"Cycle {cycle}"
Summary(cycle) == "Cycle " \o ToString(cycle)

\* AutonomyLoop() has been constructed and run() has set its handlers and
\* cycle = 0 (lines 21-26, 32-35)
LoopInit ==
    /\ StoreInit
    /\ autonomy \in Autonomies
    /\ loop = [at |-> "top", cycle |-> 0, running |-> TRUE]
    /\ sync = NoSync
    /\ tenant = NoTenant

\* lines 36-42: the loop test passes, the cycle is counted and named, and
\* record_autonomy_loop is called
LoopCycle(stamped) ==
    /\ loop.at = "top"
    /\ loop.running
    /\ loop.cycle < MaxCycles
    /\ pc[Main] = "idle"
    /\ LET cycle == NextCycle(loop.cycle)
       IN /\ loop' = [loop EXCEPT !.cycle = cycle, !.at = "step"]
          /\ frame' = [frame EXCEPT ![Main] =
                         AutonomyFrame(Summary(cycle), PDict(<< <<"cycle", PInt(cycle)>> >>),
                                       stamped)]
    /\ pc' = [pc EXCEPT ![Main] = "rec_wait"]
    /\ UNCHANGED <<rows, seq, txn, closed, reopened, lock, gen, maxRet, assignLog>>
    /\ UNCHANGED <<autonomy, sync, tenant>>

\* lines 36 and 46: the loop test fails and run() returns
LoopExit ==
    /\ loop.at = "top"
    /\ ~loop.running
    /\ loop' = [loop EXCEPT !.at = "exited"]
    /\ UNCHANGED <<storeVars, autonomy, sync, tenant>>

\* line 43: record_autonomy_loop has returned; agent_hub.activate is called
LoopActivate ==
    /\ loop.at = "step"
    /\ pc[Main] = "idle"
    /\ frame' = [frame EXCEPT ![Main] =
                   [NoFrame EXCEPT !.op = "activate", !.task = Summary(loop.cycle),
                                   !.via = "direct", !.aux = PDict(<<>>)]]
    /\ pc' = [pc EXCEPT ![Main] = "act_send"]
    /\ loop' = [loop EXCEPT !.at = "activate"]
    /\ UNCHANGED <<rows, seq, txn, closed, reopened, lock, gen, maxRet, assignLog>>
    /\ UNCHANGED <<autonomy, sync, tenant>>

\* lines 44-45: activate has returned; the loop prints and sleeps
LoopSleep ==
    /\ loop.at = "activate"
    /\ pc[Main] = "idle"
    /\ loop' = [loop EXCEPT !.at = "sleep"]
    /\ UNCHANGED <<storeVars, autonomy, sync, tenant>>

\* line 45: the sleep ends and the loop test is next
LoopWake ==
    /\ loop.at = "sleep"
    /\ loop' = [loop EXCEPT !.at = "top"]
    /\ UNCHANGED <<storeVars, autonomy, sync, tenant>>

\* lines 28-29: SIGINT or SIGTERM arrives, between any two steps of the run
StopSignal ==
    /\ loop.at \notin {"off", "exited"}
    /\ loop.running
    /\ loop' = [loop EXCEPT !.running = FALSE]
    /\ UNCHANGED <<storeVars, autonomy, sync, tenant>>

\* what the main thread does next, whatever signals arrive
LoopProgress ==
    \/ \E s \in Times : LoopCycle(s)
    \/ LoopExit
    \/ LoopActivate
    \/ LoopSleep
    \/ LoopWake
    \/ ActSend(Main)
    \/ \E s \in Times : ActRecord(Main, s)
    \/ RecStep

LoopNext ==
    \/ LoopProgress
    \/ StopSignal

LoopSpec == LoopInit /\ [][LoopNext]_vars

\* the main thread keeps running
LoopFairSpec == LoopSpec /\ WF_vars(LoopProgress)

\* committed row i is the step event of cycle k
IsStepEvent(i, k) ==
    /\ rows[i].event_type = loop_label
    /\ {"step", "cycle"} \subseteq Keys(StoredPayload(i))
    /\ DictGet(Items(StoredPayload(i)), "step") = PStr("Cycle " \o ToString(k))
    /\ DictGet(Items(StoredPayload(i)), "cycle") = PInt(k)

\* committed row i is the activation event of cycle k
IsActivationEvent(i, k) ==
    /\ rows[i].event_type = "AGENT_ACTIVATION"
    /\ "task" \in Keys(StoredPayload(i))
    /\ DictGet(Items(StoredPayload(i)), "task") = PStr("Cycle " \o ToString(k))

\* C14: at every point of an AutonomyLoop run the events appended so far are
\* a prefix of step(1), activation(1), step(2), activation(2), ...: event
\* 2k-1 carries the loop label, step 'Cycle k' and cycle k, event 2k is an
\* AGENT_ACTIVATION with task 'Cycle k', ids grow along the sequence, and the
\* cycle counter starts at 1 and grows by exactly 1.  Once a stop signal has
\* arrived no further cycle starts, the cycle under way commits both its
\* events, and the loop exits.
C14_LoopSequence ==
    /\ [] /\ \A i \in 1..Len(rows) :
               IF i % 2 = 1 THEN IsStepEvent(i, (i + 1) \div 2)
                            ELSE IsActivationEvent(i, i \div 2)
          /\ \A i \in 1..(Len(rows) - 1) : rows[i].id < rows[i + 1].id
          /\ Len(rows) <= 2 * loop.cycle
          /\ loop.cycle > 0 => Len(rows) >= 2 * (loop.cycle - 1)
          /\ loop.at \in {"sleep", "top", "exited"} => Len(rows) = 2 * loop.cycle
    /\ [][ /\ loop'.cycle \in {loop.cycle, loop.cycle + 1}
           /\ ~loop.running => loop'.cycle = loop.cycle /\ ~loop'.running ]_vars
    /\ (~loop.running) ~> (loop.at = "exited")

\* the stop signal has arrived during the second cycle, whose activation
\* event is being inserted after its step event was committed
C14_Witness ==
    /\ ~loop.running
    /\ loop.cycle = 2
    /\ loop.at = "activate"
    /\ pc[Main] = "rec_inserted"
    /\ Len(rows) = 3
    /\ IsStepEvent(3, 2)

\* the pages for which a secret version was added
PagesWithVersion == {j \in 1..Len(sync.pages) : VersionFor(j)}

\* C15: in a run without --dry-run that reports 'Synced N secrets', N is the
\* number of pages for which a secret version was added: pages skipped for
\* missing fields or after a permission failure are not counted.  A dry run
\* makes no create_secret and no add_secret_version call.
C15_SyncedCount ==
    /\ (sync.at = "done" /\ ~sync.dry_run /\ sync.pages # <<>>) =>
           sync.log[Len(sync.log)] = <<"Synced", Cardinality(PagesWithVersion)>>
    /\ sync.dry_run => sync.calls = <<>> /\ sync.versions = <<>>

\* what holds of the count: a dry run calls the secret store never and
\* reports no count, and otherwise pages with missing fields are not
\* counted: the count is the number of complete pages
CountsCompletePages_Holds ==
    /\ sync.dry_run => sync.calls = <<>> /\ sync.versions = <<>>
    /\ (sync.at = "done" /\ sync.dry_run) =>
           \A n \in 1..Len(sync.log) : sync.log[n][1] # "Synced"
    /\ (sync.at = "done" /\ ~sync.dry_run /\ sync.pages # <<>>) =>
           sync.log[Len(sync.log)] =
               <<"Synced", Cardinality({j \in 1..Len(sync.pages) : Complete(sync.pages[j])})>>

====
